---- MODULE Spec2Model ----
(***************************************************************************)
(* Model of the notes service of src/index.js: an Express application that *)
(* stores every note as the file <cache>/<name>.txt and answers            *)
(*   POST /write, GET|PUT|DELETE /notes/:name and GET /notes.              *)
(*                                                                         *)
(* Strings are sequences of one-character strings, so that name + '.txt',  *)
(* path.join, path.parse and startsWith are computed as Node computes them *)
(* (POSIX paths).  A text is a sequence of UTF-16 code units; "D800" is a  *)
(* lone surrogate, which fs.writeFileSync encodes as U+FFFD ("FFFD").      *)
(* The file system is a function from absolute, normalised paths (a        *)
(* sequence of segments below the root) to entries.                        *)
(*                                                                         *)
(* Every route handler calls only synchronous fs functions, so a handler   *)
(* runs to completion on Node's single thread: one action per handler.     *)
(* Runtime assumed: Node >= 14 (fs.writeFileSync throws on data that is    *)
(* neither a string nor a buffer), Express 4 (req.body is {} when no body  *)
(* parser matched, an exception in a handler is answered 500).             *)
(***************************************************************************)
EXTENDS Integers, Sequences, FiniteSets, TLC

VARIABLES
    fs,       \* the file system: path -> [kind, data]
    last,     \* the request handled last, with its response
    deleted,  \* history (when kept): the name deleted last and not created since
    pending   \* requests received whose handler has not run yet

vars == <<fs, last, deleted, pending>>

----------------------------------------------------------------------------
(* Bounds of the model *)

\* a create request is handled only while it leaves at most this many
\* regular files
MaxFiles == 2

\* at most this many requests wait for their handler at a time
MaxInFlight == 2

----------------------------------------------------------------------------
(* Strings and paths *)

\* '.txt', appended to every note name
TxtExt == <<".", "t", "x", "t">>

\* String(undefined): what  note_name + '.txt'  starts with when the field is absent
Undefined == <<"u", "n", "d", "e", "f", "i", "n", "e", "d">>

\* the cache directory (program.opts().cache), here /c
Cache == << <<"c">> >>

\* the file system root
Root == <<>>

\* the segments of a path string, split at '/'
RECURSIVE Split(_)
Split(s) ==
    IF s = <<>> THEN << <<>> >>
    ELSE LET rest == Split(Tail(s)) IN
         IF Head(s) = "/" THEN << <<>> >> \o rest
         ELSE << <<Head(s)>> \o Head(rest) >> \o Tail(rest)

\* path.normalize of an absolute path: '' and '.' are dropped, '..' removes
\* the segment before it (and is dropped at the root)
RECURSIVE Resolve(_, _)
Resolve(stack, segs) ==
    IF segs = <<>> THEN stack
    ELSE LET g == Head(segs) IN
         Resolve(IF g = <<>> \/ g = <<".">> THEN stack
                 ELSE IF g = <<".", ".">>
                      THEN (IF stack = <<>> THEN <<>>
                            ELSE SubSeq(stack, 1, Len(stack) - 1))
                      ELSE Append(stack, g),
                 Tail(segs))

\* path.join(dir, rel) for an absolute, normalised dir
PathJoin(dir, rel) == Resolve(dir, Split(rel))

\* path.dirname of a normalised path
DirName(p) == IF p = <<>> THEN <<>> ELSE SubSeq(p, 1, Len(p) - 1)

\* String.prototype.startsWith for a one-character prefix
StartsWith(s, c) == Len(s) >= 1 /\ s[1] = c

\* index of the last '.' of a base name, 0 when it has none
LastDot(base) ==
    LET D == {i \in 1..Len(base) : base[i] = "."} IN
    IF D = {} THEN 0 ELSE CHOOSE i \in D : \A j \in D : j <= i

\* path.parse(base).name: the base name without its extension; a base with no
\* '.', with its only '.' in front, or equal to '..' has no extension
ParseName(base) ==
    LET d == LastDot(base) IN
    IF d = 0 \/ d = 1 \/ base = <<".", ".">> THEN base
    ELSE SubSeq(base, 1, d - 1)

\* path.join(cache, name + '.txt')
NotePath(name) == PathJoin(Cache, name \o TxtExt)

----------------------------------------------------------------------------
(* Texts *)

\* what reading back a string written as UTF-8 gives: a lone surrogate
\* becomes U+FFFD
Utf8(t) == [i \in 1..Len(t) |-> IF t[i] = "D800" THEN "FFFD" ELSE t[i]]

\* a string with no lone surrogate
WellFormed(t) == \A i \in 1..Len(t) : t[i] # "D800"

----------------------------------------------------------------------------
(* The file system *)

NoEntry == [kind |-> "none", data |-> <<>>]
DirEntry == [kind |-> "dir", data |-> <<>>]
FileEntry(d) == [kind |-> "file", data |-> d]

\* the entry at a path, NoEntry when there is none
EntryAt(f, p) == IF p \in DOMAIN f THEN f[p] ELSE NoEntry

\* fs.existsSync
ExistsSync(f, p) == p \in DOMAIN f

IsFile(f, p) == p \in DOMAIN f /\ f[p].kind = "file"

\* the error fs.writeFileSync(p, data) throws, "" when it succeeds; field.has
\* is FALSE when data is not a string (undefined, or the {} of an unparsed body)
WriteError(f, p, field) ==
    IF ~field.has THEN "ERR_INVALID_ARG_TYPE"
    ELSE IF DirName(p) \notin DOMAIN f THEN "ENOENT"
    ELSE IF f[DirName(p)].kind # "dir" THEN "ENOTDIR"
    ELSE IF p \in DOMAIN f /\ f[p].kind = "dir" THEN "EISDIR"
    ELSE ""

\* the variant that opens the file for appending (flag 'a')
WriteFileSync_Append(f, p, t) ==
    (p :> FileEntry(EntryAt(f, p).data \o Utf8(t))) @@ f

\* fs.writeFileSync(p, t) when it succeeds: the file holds exactly t, encoded
WriteFileSync(f, p, t) == (p :> FileEntry(Utf8(t))) @@ f

\* fs.unlinkSync(p) when it succeeds
UnlinkSync(f, p) == [q \in DOMAIN f \ {p} |-> f[q]]

\* fs.readFileSync(p, 'utf-8') of a regular file
ReadFileSync(f, p) == f[p].data

\* the names fs.readdirSync(dir) returns, as a set
DirNames(f, dir) ==
    {p[Len(p)] : p \in {q \in DOMAIN f : Len(q) = Len(dir) + 1 /\ DirName(q) = dir}}

\* the sequences that hold every element of S once
RECURSIVE Orderings(_)
Orderings(S) ==
    IF S = {} THEN {<<>>}
    ELSE UNION {{<<x>> \o s : s \in Orderings(S \ {x})} : x \in S}

\* fs.readdirSync(dir): the names in some order (the order is the file system's)
ReaddirSync(f, dir) == Orderings(DirNames(f, dir))

RegularFiles(f) == {p \in DOMAIN f : f[p].kind = "file"}

----------------------------------------------------------------------------
(* Requests and responses *)

Field(v) == [has |-> TRUE, v |-> v]
Absent == [has |-> FALSE, v |-> <<>>]

\* a request: the route, the name (note_name or :name) and the body text
Req(op, name, text) == [op |-> op, name |-> name, text |-> text]
NoReq == Req("none", Absent, Absent)

\* note_name + '.txt' and req.params.name + '.txt' convert the name to a string
NameString(field) == IF field.has THEN field.v ELSE Undefined

\* a handler's result: the file system it leaves and the response
Res(f, status, msg) ==
    [fs |-> f, status |-> status, msg |-> msg, text |-> <<>>, notes |-> <<>>]

----------------------------------------------------------------------------
(* The route handlers *)

\* the variant that leaves out the extension when building the path
HPostWrite_NoExt(f, note_name, note) ==
    LET filePath == PathJoin(Cache, NameString(note_name)) IN
    IF ExistsSync(f, filePath) THEN Res(f, 400, "Note already exists")
    ELSE IF WriteError(f, filePath, note) # ""
         THEN Res(f, 500, WriteError(f, filePath, note))
         ELSE Res(WriteFileSync(f, filePath, note.v), 201, "Note created")

\* the variant without the existence check
HPostWrite_Overwrite(f, note_name, note) ==
    LET filePath == NotePath(NameString(note_name)) IN
    IF WriteError(f, filePath, note) # ""
    THEN Res(f, 500, WriteError(f, filePath, note))
    ELSE Res(WriteFileSync(f, filePath, note.v), 201, "Note created")

\* app.post('/write')
HPostWrite(f, note_name, note) ==
    LET filePath == NotePath(NameString(note_name)) IN
    IF ExistsSync(f, filePath) THEN Res(f, 400, "Note already exists")
    ELSE IF WriteError(f, filePath, note) # ""
         THEN Res(f, 500, WriteError(f, filePath, note))
         ELSE Res(WriteFileSync(f, filePath, note.v), 201, "Note created")

\* app.get('/notes/:name')
HGetNote(f, name) ==
    LET filePath == NotePath(name) IN
    IF ~ExistsSync(f, filePath) THEN Res(f, 404, "Not Found")
    ELSE IF ~IsFile(f, filePath) THEN Res(f, 500, "EISDIR")
    ELSE [Res(f, 200, "") EXCEPT !.text = ReadFileSync(f, filePath)]

\* app.put('/notes/:name'); body.has is FALSE when express.text() parsed nothing
HPutNote(f, name, body) ==
    LET filePath == NotePath(name) IN
    IF ~ExistsSync(f, filePath) THEN Res(f, 404, "Not Found")
    ELSE IF WriteError(f, filePath, body) # ""
         THEN Res(f, 500, WriteError(f, filePath, body))
         ELSE Res(WriteFileSync(f, filePath, body.v), 200, "Note updated")

\* app.delete('/notes/:name')
HDeleteNote(f, name) ==
    LET filePath == NotePath(name) IN
    IF ~ExistsSync(f, filePath) THEN Res(f, 404, "Not Found")
    ELSE IF ~IsFile(f, filePath) THEN Res(f, 500, "EISDIR")
    ELSE Res(UnlinkSync(f, filePath), 200, "Note deleted")

\* the variant that forgets the '_' prefix
IsListed_NoUnderscore(f, file) ==
    /\ IsFile(f, PathJoin(Cache, file))
    /\ ~StartsWith(file, ".")

\* the condition of the loop of app.get('/notes')
IsListed(f, file) ==
    /\ IsFile(f, PathJoin(Cache, file))
    /\ ~StartsWith(file, ".")
    /\ ~StartsWith(file, "_")

\* the loop of app.get('/notes') over the names readdirSync returned
RECURSIVE Collect(_, _)
Collect(f, files) ==
    IF files = <<>> THEN <<>>
    ELSE LET file == Head(files)
             filePath == PathJoin(Cache, file)
         IN (IF IsListed(f, file)
             THEN << [name |-> ParseName(file), text |-> ReadFileSync(f, filePath)] >>
             ELSE <<>>) \o Collect(f, Tail(files))

\* app.get('/notes'), files being what readdirSync(cache) returned
HGetNotes(f, files) ==
    IF Cache \notin DOMAIN f \/ f[Cache].kind # "dir"
    THEN Res(f, 500, "Internal Server Error")
    ELSE [Res(f, 200, "") EXCEPT !.notes = Collect(f, files)]

\* the router: the handler of a request other than GET /notes
Handle(f, req) ==
    CASE req.op = "create" -> HPostWrite(f, req.name, req.text)
      [] req.op = "get"    -> HGetNote(f, NameString(req.name))
      [] req.op = "put"    -> HPutNote(f, NameString(req.name), req.text)
      [] req.op = "delete" -> HDeleteNote(f, NameString(req.name))

----------------------------------------------------------------------------
(* Inputs *)

NameA == <<"a">>
NameAB == <<"a", ".", "b">>
NameHidden == <<".", "h">>
NameUp == <<".", ".", "/", "x">>
NameSub == <<"s", "/", "a">>
NameAlias == <<"x", "/", ".", ".", "/", "a">>

\* the names requests carry: in a form field, or in the URL (where %2F is
\* decoded to '/')
Names == {NameA, NameAB, NameHidden, NameUp, NameSub, NameAlias}

\* the names with no '/' in them
PlainNames == {n \in Names : \A i \in 1..Len(n) : n[i] # "/"}

\* the texts requests carry
Texts == {<<>>, <<"a">>, <<"D800">>}

\* note_name of POST /write: a name, or no such field
NameFields == {Field(n) : n \in Names} \cup {Absent}

\* note of POST /write, or the body of PUT: a text, or none
TextFields == {Field(t) : t \in Texts} \cup {Absent}

\* a cache directory just created by fs.mkdirSync
EmptyFs == (Root :> DirEntry) @@ (Cache :> DirEntry)

\* a cache directory that existed at startup, holding a subdirectory and a
\* reserved file
PopulatedFs ==
    (Append(Cache, <<"s">>) :> DirEntry)
    @@ (Append(Cache, <<"_", "r">> \o TxtExt) :> FileEntry(<<"a">>))
    @@ EmptyFs

----------------------------------------------------------------------------
(* The state machine *)

Idle == [busy |-> FALSE, req |-> NoReq, seenAbsent |-> FALSE]

\* the history of deletions: kept or not (on), and the name it holds, if any
NoDeleted(on) == [on |-> on, has |-> FALSE, name |-> <<>>]

\* the file a request names
ReqPath(req) == NotePath(NameString(req.name))

InitWith(f, history) ==
    /\ fs = f
    /\ last = [req |-> NoReq, status |-> 0, msg |-> "", text |-> <<>>,
               notes |-> <<>>, before |-> NoEntry, seenAbsent |-> FALSE]
    /\ deleted = NoDeleted(history)
    /\ pending = [i \in 1..MaxInFlight |-> Idle]

\* after startup (lines 29-37 leave an existing cache directory as it is)
Init == \E f \in {EmptyFs, PopulatedFs} : InitWith(f, FALSE)

\* after startup with a cache directory that did not exist or was empty
InitEmpty == InitWith(EmptyFs, FALSE)

\* the same, keeping the history of deletions
InitHistory == InitWith(EmptyFs, TRUE)

\* the handler of req has run with result res: the response is sent
Respond(req, res, seen) ==
    /\ fs' = res.fs
    /\ last' = [req |-> req, status |-> res.status, msg |-> res.msg,
                text |-> res.text, notes |-> res.notes,
                before |-> IF req.op = "list" THEN NoEntry
                           ELSE EntryAt(fs, ReqPath(req)),
                seenAbsent |-> seen]
    /\ deleted' =
         IF deleted.on /\ req.op = "delete" /\ res.status = 200
         THEN [on |-> TRUE, has |-> TRUE, name |-> req.name.v]
         ELSE IF /\ req.op = "create" /\ res.status = 201
                 /\ deleted.has /\ req.name.has /\ req.name.v = deleted.name
              THEN NoDeleted(TRUE)
              ELSE deleted

\* POST /write
PostWrite(note_name, note) ==
    LET res == HPostWrite(fs, note_name, note) IN
    /\ Cardinality(RegularFiles(res.fs)) <= MaxFiles
    /\ Respond(Req("create", note_name, note), res, FALSE)
    /\ UNCHANGED pending

\* GET /notes/:name
GetNote(name) ==
    /\ Respond(Req("get", Field(name), Absent), HGetNote(fs, name), FALSE)
    /\ UNCHANGED pending

\* PUT /notes/:name
PutNote(name, body) ==
    /\ Respond(Req("put", Field(name), body), HPutNote(fs, name, body), FALSE)
    /\ UNCHANGED pending

\* DELETE /notes/:name
DeleteNote(name) ==
    /\ Respond(Req("delete", Field(name), Absent), HDeleteNote(fs, name), FALSE)
    /\ UNCHANGED pending

\* GET /notes
GetNotes ==
    /\ \E files \in ReaddirSync(fs, Cache) :
          Respond(Req("list", Absent, Absent), HGetNotes(fs, files), FALSE)
    /\ UNCHANGED pending

Next ==
    \/ \E note_name \in NameFields, note \in TextFields : PostWrite(note_name, note)
    \/ \E name \in Names : GetNote(name)
    \/ \E name \in Names, body \in TextFields : PutNote(name, body)
    \/ \E name \in Names : DeleteNote(name)
    \/ GetNotes

\* requests handled one after the other
Spec == Init /\ [][Next]_vars

\* the same, starting from an empty cache directory
SpecEmpty == InitEmpty /\ [][Next]_vars

\* the same, keeping the history of deletions
SpecHistory == InitHistory /\ [][Next]_vars

----------------------------------------------------------------------------
(* Requests in flight *)

\* the requests that arrive while others wait: multer (upload.none()) and
\* express.text() read the body asynchronously, and the handler runs when the
\* body is complete
ConcRequests ==
    {Req("create", Field(NameA), Field(t)) : t \in {<<>>, <<"a">>}}
    \cup {Req("put", Field(NameA), Field(<<"a">>)),
          Req("get", Field(NameA), Absent),
          Req("delete", Field(NameA), Absent)}

\* a request arrives; seenAbsent records (history) whether its file was absent
Arrive(i, req) ==
    /\ ~pending[i].busy
    /\ pending' = [pending EXCEPT ![i] =
                      [busy |-> TRUE, req |-> req,
                       seenAbsent |-> ~ExistsSync(fs, ReqPath(req))]]
    /\ UNCHANGED <<fs, last, deleted>>

\* the body of a waiting request is complete: its handler runs, from its
\* first line to the response, with no other handler in between
Serve(i) ==
    /\ pending[i].busy
    /\ Respond(pending[i].req, Handle(fs, pending[i].req), pending[i].seenAbsent)
    /\ pending' = [pending EXCEPT ![i] = Idle]

NextConc ==
    \/ \E i \in 1..MaxInFlight, req \in ConcRequests : Arrive(i, req)
    \/ \E i \in 1..MaxInFlight : Serve(i)

\* requests overlapping in time, from an empty cache directory
SpecConc == InitEmpty /\ [][NextConc]_vars

----------------------------------------------------------------------------
(* The claims *)

WellFormedTexts == {t \in Texts : WellFormed(t)}

IsFileOp(req) == req.op \in {"create", "get", "put", "delete"}

\* what GET /notes/:name shows of a note
ReadView(f, n) == <<HGetNote(f, n).status, HGetNote(f, n).text>>

\* C1: when no file exists for a name with no '/' in it, Create(n, t) is
\* answered 201 and the Read(n) that follows is answered 200 with body t
\* (t a well-formed string), both for every create the store could handle now
\* and for the create handled last.
C1_RoundTrip ==
    /\ \A n \in PlainNames, t \in WellFormedTexts :
          ~ExistsSync(fs, NotePath(n)) =>
             LET w == HPostWrite(fs, Field(n), Field(t))
                 r == HGetNote(w.fs, n)
             IN w.status = 201 /\ r.status = 200 /\ r.text = t
    /\ (/\ last.req.op = "create" /\ last.status = 201
        /\ last.req.name.has /\ last.req.name.v \in PlainNames
        /\ WellFormed(last.req.text.v))
       => LET r == HGetNote(fs, last.req.name.v)
          IN r.status = 200 /\ r.text = last.req.text.v

\* a note was created with text "a" under a plain name, and reads back as "a"
C1_Witness ==
    /\ last.req.op = "create" /\ last.status = 201
    /\ last.req.name.has /\ last.req.name.v \in PlainNames
    /\ last.before.kind = "none"
    /\ last.req.text.v = <<"a">>
    /\ ReadView(fs, last.req.name.v) = <<200, <<"a">> >>

\* C2: a create whose file exists is answered 400 and changes nothing,
\* whatever the text: the stored content remains what it was.
C2_CreateExisting ==
    /\ \A nf \in NameFields, tf \in TextFields :
          ExistsSync(fs, NotePath(NameString(nf))) =>
             LET w == HPostWrite(fs, nf, tf)
             IN w.status = 400 /\ w.fs = fs
    /\ (last.req.op = "create" /\ last.before.kind # "none")
       => /\ last.status = 400
          /\ EntryAt(fs, ReqPath(last.req)) = last.before

\* a create with another text was refused and the note kept its content
C2_Witness ==
    /\ last.req.op = "create" /\ last.status = 400
    /\ last.before.kind = "file"
    /\ last.req.text.has /\ Utf8(last.req.text.v) # last.before.data
    /\ EntryAt(fs, ReqPath(last.req)) = last.before

\* C3: the file a request creates, reads, overwrites or deletes lies directly
\* inside the cache directory.
C3_Confined ==
    (IsFileOp(last.req) /\ last.status \in {200, 201})
    => DirName(ReqPath(last.req)) = Cache

\* C4: an update of an existing note is answered 200 and the Read that
\* follows returns exactly the new text; an update of an absent note is
\* answered 404 and creates nothing.
C4_Update ==
    /\ \A n \in Names, t2 \in WellFormedTexts :
          IsFile(fs, NotePath(n)) =>
             LET u == HPutNote(fs, n, Field(t2))
                 r == HGetNote(u.fs, n)
             IN u.status = 200 /\ r.status = 200 /\ r.text = t2
    /\ \A n \in Names, b \in TextFields :
          ~ExistsSync(fs, NotePath(n)) =>
             LET u == HPutNote(fs, n, b)
             IN u.status = 404 /\ u.fs = fs
    /\ (last.req.op = "put" /\ last.status = 200 /\ WellFormed(last.req.text.v))
       => /\ last.before.kind = "file"
          /\ ReadView(fs, last.req.name.v) = <<200, last.req.text.v>>
    /\ (last.req.op = "put" /\ last.before.kind = "none")
       => /\ last.status = 404
          /\ ~ExistsSync(fs, ReqPath(last.req))

\* a note holding a non-empty text was updated with another non-empty text
\* and reads back as the new text alone
C4_Witness ==
    /\ last.req.op = "put" /\ last.status = 200
    /\ last.before.kind = "file" /\ last.before.data = <<"FFFD">>
    /\ last.req.text.v = <<"a">>
    /\ ReadView(fs, last.req.name.v) = <<200, <<"a">> >>

\* C5: after Delete(n) was answered 200, Read(n) and Delete(n) are answered
\* 404 until a create request naming n is answered 201.
C5_DeletedStaysGone ==
    deleted.has =>
       /\ HGetNote(fs, deleted.name).status = 404
       /\ HDeleteNote(fs, deleted.name).status = 404

\* the regular files of the cache directory that GET /notes is to show
Shown(f) ==
    {file \in DirNames(f, Cache) :
        /\ EntryAt(f, Append(Cache, file)).kind = "file"
        /\ file[1] \notin {".", "_"}}

\* notes holds one entry per shown file, named as the file without '.txt'
\* and holding its content, and nothing else
ListsExactly(f, notes) ==
    /\ Len(notes) = Cardinality(Shown(f))
    /\ \A file \in Shown(f) :
          \E i \in 1..Len(notes) :
             /\ notes[i].name \o TxtExt = file
             /\ notes[i].text = f[Append(Cache, file)].data
    /\ DirNames(f, Cache) = {} => notes = <<>>

\* C6: GET /notes is answered 200 with exactly one {name, text} entry per
\* regular file of the cache directory not beginning with '.' or '_', in
\* whatever order the directory is read, and with [] when it is empty.
C6_List ==
    /\ \A files \in ReaddirSync(fs, Cache) :
          LET r == HGetNotes(fs, files)
          IN r.status = 200 /\ r.fs = fs /\ ListsExactly(fs, r.notes)
    /\ last.req.op = "list" => last.status = 200 /\ ListsExactly(fs, last.notes)

\* a listing of one note was answered while the directory also held a
\* reserved file and a subdirectory
C6_Witness ==
    /\ last.req.op = "list" /\ last.status = 200
    /\ Len(last.notes) = 1
    /\ Append(Cache, <<"_", "r">> \o TxtExt) \in DOMAIN fs
    /\ EntryAt(fs, Append(Cache, <<"s">>)).kind = "dir"

\* the two orders in which two waiting requests can be handled
Orders(i, j) == {<<i, j>>, <<j, i>>}

\* two creates of the same absent file wait at the same time
Racing(i, j) ==
    /\ i # j /\ pending[i].busy /\ pending[j].busy
    /\ pending[i].req.op = "create" /\ pending[j].req.op = "create"
    /\ ReqPath(pending[i].req) = ReqPath(pending[j].req)
    /\ ~ExistsSync(fs, ReqPath(pending[i].req))

\* C7 as stated: when two creates of the same absent name wait at the same
\* time, some order of handling answers both 201 and leaves the text of the
\* later one.
C7_BothCreated ==
    \A i, j \in 1..MaxInFlight :
       Racing(i, j) =>
          \E o \in Orders(i, j) :
             LET r1 == Handle(fs, pending[o[1]].req)
                 r2 == Handle(r1.fs, pending[o[2]].req)
             IN /\ r1.status = 201 /\ r2.status = 201
                /\ r2.fs[ReqPath(pending[o[2]].req)].data = Utf8(pending[o[2]].req.text.v)

\* C7 amended: a handler runs to completion, so in either order the create
\* handled first is answered 201, the other 400, and the text of the first
\* stays; no create answered 201 ever found its file present.
C7_FirstWriterWins ==
    /\ \A i, j \in 1..MaxInFlight :
          Racing(i, j) =>
             \A o \in Orders(i, j) :
                LET r1 == Handle(fs, pending[o[1]].req)
                    r2 == Handle(r1.fs, pending[o[2]].req)
                IN /\ r1.status = 201 /\ r2.status = 400
                   /\ r2.fs[ReqPath(pending[o[1]].req)].data = Utf8(pending[o[1]].req.text.v)
    /\ (last.req.op = "create" /\ last.status = 201) => last.before.kind = "none"

\* a create that arrived while its file was absent was answered 400: another
\* create of the same name, waiting at the same time, was handled first, and
\* its text is the one stored
C7_Witness ==
    /\ last.req.op = "create" /\ last.seenAbsent /\ last.status = 400
    /\ last.before.kind = "file"
    /\ last.before.data # Utf8(last.req.text.v)
    /\ EntryAt(fs, ReqPath(last.req)) = last.before

\* C8: a create request with no note_name or no note is not answered 201
\* and writes no file.
C8_RequiredFields ==
    (last.req.op = "create" /\ (~last.req.name.has \/ ~last.req.text.has))
    => /\ last.status # 201
       /\ EntryAt(fs, ReqPath(last.req)) = last.before

\* C9: Read and List change nothing, a request answered 400 or 404 changes
\* nothing, and a successful Create, Update or Delete of n leaves every note
\* with another name as it was.
C9_Frame ==
    [][/\ last'.req.op \in {"get", "list"} => fs' = fs
       /\ last'.status \in {400, 404} => fs' = fs
       /\ (last'.req.op \in {"create", "put", "delete"} /\ last'.status \in {200, 201})
          => \A m \in Names \ {last'.req.name.v} : ReadView(fs', m) = ReadView(fs, m)
      ]_vars

\* C10: from an empty cache directory, every entry of List reads back with
\* its text, and every name that reads 200 and does not begin with '.' or
\* '_' is the name of exactly one entry of List.
C10_ListReadAgree ==
    \A files \in ReaddirSync(fs, Cache) :
       LET L == HGetNotes(fs, files).notes IN
       /\ \A i \in 1..Len(L) : ReadView(fs, L[i].name) = <<200, L[i].text>>
       /\ \A n \in Names \cup {Undefined} :
             (HGetNote(fs, n).status = 200 /\ n[1] \notin {".", "_"})
             => Cardinality({i \in 1..Len(L) : L[i].name = n}) = 1

====
